---- MODULE Spec2Model ----
(***************************************************************************)
(* Model of flow_log_parser.py: load_lookup_table, parse_flow_log,         *)
(* process_lines, write_output and main.  Text is modelled as sequences    *)
(* of one-character strings so that strip, split, lower, int and the       *)
(* fixed-width formatting are computed character by character.             *)
(***************************************************************************)
EXTENDS Integers, Sequences, FiniteSets, TLC

\* ------------------------------------------------------------------ bounds
MaxLookupLines == 3
MaxFlowLines == 3
MaxBatch == 3

\* ------------------------------------------------- Python string helpers
Whitespace == {" ", "\t", "\n"}

Digits == <<"0", "1", "2", "3", "4", "5", "6", "7", "8", "9">>

UpperCase == <<"A", "B", "C", "D", "E", "F", "G", "H", "I", "J", "K", "L", "M",
               "N", "O", "P", "Q", "R", "S", "T", "U", "V", "W", "X", "Y", "Z">>

LowerCase == <<"a", "b", "c", "d", "e", "f", "g", "h", "i", "j", "k", "l", "m",
               "n", "o", "p", "q", "r", "s", "t", "u", "v", "w", "x", "y", "z">>

IsDigit(c) == \E d \in 1..10 : Digits[d] = c

DigitVal(c) == (CHOOSE d \in 1..10 : Digits[d] = c) - 1

\* str.lower(), one character
LowerChar(c) ==
    IF \E u \in 1..26 : UpperCase[u] = c
    THEN LowerCase[CHOOSE u \in 1..26 : UpperCase[u] = c]
    ELSE c

\* str.lower()
Lower(s) == [n \in 1..Len(s) |-> LowerChar(s[n])]

RECURSIVE LStrip(_)
LStrip(s) ==
    IF s # <<>> /\ Head(s) \in Whitespace THEN LStrip(Tail(s)) ELSE s

RECURSIVE RStrip(_)
RStrip(s) ==
    IF s # <<>> /\ s[Len(s)] \in Whitespace
    THEN RStrip(SubSeq(s, 1, Len(s) - 1))
    ELSE s

\* str.strip()
Strip(s) == RStrip(LStrip(s))

\* str.split(sep): every separator splits, empty fields are kept
RECURSIVE SplitSep(_, _, _, _)
SplitSep(s, sep, cur, acc) ==
    IF s = <<>> THEN Append(acc, cur)
    ELSE IF Head(s) = sep THEN SplitSep(Tail(s), sep, <<>>, Append(acc, cur))
    ELSE SplitSep(Tail(s), sep, Append(cur, Head(s)), acc)

Split(s, sep) == SplitSep(s, sep, <<>>, <<>>)

\* str.split(): runs of whitespace separate, empty fields are dropped
RECURSIVE SplitWhitespace(_, _, _)
SplitWhitespace(s, cur, acc) ==
    IF s = <<>> THEN (IF cur = <<>> THEN acc ELSE Append(acc, cur))
    ELSE IF Head(s) \in Whitespace
         THEN SplitWhitespace(Tail(s), <<>>, IF cur = <<>> THEN acc ELSE Append(acc, cur))
         ELSE SplitWhitespace(Tail(s), Append(cur, Head(s)), acc)

SplitWS(s) == SplitWhitespace(s, <<>>, <<>>)

\* the digit part of an int() literal: digits, single underscores between them
IsDigitString(s) ==
    /\ s # <<>>
    /\ IsDigit(s[1])
    /\ IsDigit(s[Len(s)])
    /\ \A n \in 1..Len(s) : IsDigit(s[n]) \/ s[n] = "_"
    /\ \A n \in 1..(Len(s) - 1) : ~(s[n] = "_" /\ s[n + 1] = "_")

RECURSIVE DigitStringVal(_, _)
DigitStringVal(s, acc) ==
    IF s = <<>> THEN acc
    ELSE IF Head(s) = "_" THEN DigitStringVal(Tail(s), acc)
    ELSE DigitStringVal(Tail(s), 10 * acc + DigitVal(Head(s)))

Unsigned(s) ==
    IF s # <<>> /\ Head(s) \in {"+", "-"} THEN Tail(s) ELSE s

\* int(s) succeeds (no ValueError)
IntOk(s) == IsDigitString(Unsigned(Strip(s)))

\* int(s), defined when IntOk(s)
IntVal(s) ==
    LET t == Strip(s)
        v == DigitStringVal(Unsigned(t), 0)
    IN  IF t # <<>> /\ Head(t) = "-" THEN 0 - v ELSE v

\* str(n) for an int
RECURSIVE NatStr(_)
NatStr(n) ==
    IF n < 10 THEN <<Digits[n + 1]>>
    ELSE Append(NatStr(n \div 10), Digits[(n % 10) + 1])

IntStr(n) == IF n < 0 THEN <<"-">> \o NatStr(0 - n) ELSE NatStr(n)

Spaces(n) == [k \in 1..n |-> " "]

\* format spec "<w": pad on the right to at least w characters
LJust(s, w) == IF Len(s) >= w THEN s ELSE s \o Spaces(w - Len(s))

\* variant: ">" treated like "<"
RJust_PadRight(s, w) == IF Len(s) >= w THEN s ELSE s \o Spaces(w - Len(s))

\* format spec ">w": pad on the left to at least w characters
RJust(s, w) == IF Len(s) >= w THEN s ELSE Spaces(w - Len(s)) \o s

Tcp == <<"t", "c", "p">>
Udp == <<"u", "d", "p">>
Untagged == <<"u", "n", "t", "a", "g", "g", "e", "d">>

\* --------------------------------------------------------- input domains
\* lookup resource lines
LkHeader == <<"d", "s", "t", "p", "o", "r", "t", ",", "p", "r", "o", "t", "o", "c", "o", "l", ",", "t", "a", "g", "\n">>
\* "25,tcp,sv_P1"
Lk25 == <<"2", "5", ",", "t", "c", "p", ",", "s", "v", "_", "P", "1", "\n">>
\* "25,TCP, Tag2 " (same key as Lk25 once lowercased)
Lk25Dup == <<"2", "5", ",", "T", "C", "P", ",", " ", "T", "a", "g", "2", " ", "\n">>
\* "68,udp,sv_P2"
Lk68 == <<"6", "8", ",", "u", "d", "p", ",", "s", "v", "_", "P", "2", "\n">>
\* "-5,tcp,neg"
LkNeg == <<"-", "5", ",", "t", "c", "p", ",", "n", "e", "g", "\n">>
\* "x,tcp,bad"
LkBadPort == <<"x", ",", "t", "c", "p", ",", "b", "a", "d", "\n">>
\* "25,tcp"
LkTwoFields == <<"2", "5", ",", "t", "c", "p", "\n">>
\* "68,udp,a,b"
LkFourFields == <<"6", "8", ",", "u", "d", "p", ",", "a", ",", "b", "\n">>
\* "443,tcp,a_very_long_tag_name"
LkLongTag == <<"4", "4", "3", ",", "t", "c", "p", ",", "a", "_", "v", "e", "r", "y", "_", "l", "o", "n", "g", "_", "t", "a", "g", "_", "n", "a", "m", "e", "\n">>

LookupLines == {LkHeader, Lk25, Lk25Dup, Lk68, LkNeg, LkBadPort, LkTwoFields, LkFourFields}

\* flow-log resource lines
\* "2 a e s d 9 25 6 20 42 1 2 ACCEPT OK"
Fl25Tcp == <<"2", " ", "a", " ", "e", " ", "s", " ", "d", " ", "9", " ", "2", "5", " ", "6", " ", "2", "0", " ", "4", "2", " ", "1", " ", "2", " ", "A", "C", "C", "E", "P", "T", " ", "O", "K", "\n">>
\* "2 a e s d 9 -5 17 20 42"
FlNegUdp == <<"2", " ", "a", " ", "e", " ", "s", " ", "d", " ", "9", " ", "-", "5", " ", "1", "7", " ", "2", "0", " ", "4", "2", "\n">>
\* "2 a e s d 9  443<TAB>6 20 42"
Fl443Tcp == <<"2", " ", "a", " ", "e", " ", "s", " ", "d", " ", "9", " ", " ", "4", "4", "3", "\t", "6", " ", "2", "0", " ", "4", "2", "\n">>
\* "2 a e s d"
FlShort == <<"2", " ", "a", " ", "e", " ", "s", " ", "d", "\n">>
\* "2 a e s d 9 x 6 20 42"
FlBadPort == <<"2", " ", "a", " ", "e", " ", "s", " ", "d", " ", "9", " ", "x", " ", "6", " ", "2", "0", " ", "4", "2", "\n">>

\* "2 a e s d 9 25 06 20 42"
Fl25Other == <<"2", " ", "a", " ", "e", " ", "s", " ", "d", " ", "9", " ", "2", "5", " ", "0", "6", " ", "2", "0", " ", "4", "2", "\n">>

FlowLines == {Fl25Tcp, FlNegUdp, Fl443Tcp, FlShort, FlBadPort, Fl25Other}

SeqUpTo(S, n) == UNION {[1..k -> S] : k \in 0..n}

LookupFileA == <<LkHeader, Lk25, Lk68, LkLongTag>>
FlowFileA == <<FlShort, Fl25Tcp, FlNegUdp>>

\* ------------------------------------------------------------------ state
VARIABLES
    pc,                    \* position in main
    lookupFile,            \* lines of the --lookup resource
    flowFile,              \* lines of the --flow_log resource
    batch_size,            \* parse_flow_log's batch_size
    lookup,                \* load_lookup_table's dict
    lk_line_number,        \* load_lookup_table's line_number (next line)
    tag_counts,            \* ordered dict: sequence of <<tag, count>>
    port_protocol_counts,  \* ordered dict: sequence of <<<<port, protocol>>, count>>
    lines_batch,           \* parse_flow_log's lines_batch
    line_number,           \* parse_flow_log's line_number (lines read)
    i,                     \* process_lines' loop index
    ret,                   \* which call of process_lines is running
    out_exists,            \* the output file exists
    out,                   \* strings written to the output file
    log,                   \* diagnostics: sequence of <<level, function, cited line>>
    error                  \* the exception main re-raises, or "none"

vars == <<pc, lookupFile, flowFile, batch_size, lookup, lk_line_number,
          tag_counts, port_protocol_counts, lines_batch, line_number, i, ret,
          out_exists, out, log, error>>

EmptyDict == [k \in {} |-> <<>>]

InitRun ==
    /\ pc = "main"
    /\ lookup = EmptyDict
    /\ lk_line_number = 1
    /\ tag_counts = <<>>
    /\ port_protocol_counts = <<>>
    /\ lines_batch = <<>>
    /\ line_number = 0
    /\ i = 0
    /\ ret = "none"
    /\ out_exists = FALSE
    /\ out = <<>>
    /\ log = <<>>
    /\ error = "none"

Init ==
    /\ InitRun
    /\ \/ /\ lookupFile \in SeqUpTo(LookupLines, MaxLookupLines)
          /\ flowFile = FlowFileA
          /\ batch_size = 2
       \/ /\ lookupFile = LookupFileA
          /\ flowFile \in SeqUpTo(FlowLines, MaxFlowLines)
          /\ batch_size \in 1..MaxBatch

\* ------------------------------------------------------ load_lookup_table
\* variant: an existing key keeps its first value
DictSet_KeepFirst(d, k, v) ==
    [x \in (DOMAIN d) \cup {k} |-> IF x \in DOMAIN d THEN d[x] ELSE v]

DictSet(d, k, v) == [x \in (DOMAIN d) \cup {k} |-> IF x = k THEN v ELSE d[x]]

\* the body of the for loop: unpack, int(), store; ValueError is logged
LoadOne(line, number, lk, lg) ==
    LET fields == Split(Strip(line), ",")
    IN  IF Len(fields) = 3 /\ IntOk(fields[1])
        THEN [lookup |-> DictSet(lk, <<IntVal(fields[1]), Lower(fields[2])>>,
                                 Lower(Strip(fields[3]))),
              log |-> lg]
        ELSE [lookup |-> lk, log |-> Append(lg, <<"error", "load_lookup_table", number>>)]

\* an exception leaves main: the raising function logs it when one of its
\* except clauses matches, main's "except Exception" logs it and re-raises
Fail(e, func) ==
    /\ pc' = "failed"
    /\ error' = e
    /\ log' = IF e = "StopIteration"
              THEN Append(log, <<"critical", "main", 0>>)
              ELSE log \o <<(<<"critical", func, 0>>), (<<"critical", "main", 0>>)>>

LoadOpen ==
    /\ pc = "main"
    /\ pc' = "load_header"
    /\ lookup' = EmptyDict
    /\ UNCHANGED <<lookupFile, flowFile, batch_size, lk_line_number, tag_counts,
                   port_protocol_counts, lines_batch, line_number, i, ret,
                   out_exists, out, log, error>>

LoadOpenFail ==
    /\ pc = "main"
    /\ \E e \in {"FileNotFoundError", "IOError"} : Fail(e, "load_lookup_table")
    /\ UNCHANGED <<lookupFile, flowFile, batch_size, lookup, lk_line_number,
                   tag_counts, port_protocol_counts, lines_batch, line_number,
                   i, ret, out_exists, out>>

\* next(f): StopIteration on an empty file is caught by neither except clause
LoadSkipHeader ==
    /\ pc = "load_header"
    /\ IF lookupFile = <<>>
       THEN /\ Fail("StopIteration", "load_lookup_table")
            /\ UNCHANGED lk_line_number
       ELSE /\ pc' = "load_loop"
            /\ lk_line_number' = 2
            /\ UNCHANGED <<log, error>>
    /\ UNCHANGED <<lookupFile, flowFile, batch_size, lookup, tag_counts,
                   port_protocol_counts, lines_batch, line_number, i, ret,
                   out_exists, out>>

LoadLine ==
    /\ pc = "load_loop"
    /\ lk_line_number <= Len(lookupFile)
    /\ LET r == LoadOne(lookupFile[lk_line_number], lk_line_number, lookup, log)
       IN  /\ lookup' = r.lookup
           /\ log' = r.log
    /\ lk_line_number' = lk_line_number + 1
    /\ UNCHANGED <<pc, lookupFile, flowFile, batch_size, tag_counts,
                   port_protocol_counts, lines_batch, line_number, i, ret,
                   out_exists, out, error>>

LoadReadFail ==
    /\ pc \in {"load_header", "load_loop"}
    /\ Fail("IOError", "load_lookup_table")
    /\ UNCHANGED <<lookupFile, flowFile, batch_size, lookup, lk_line_number,
                   tag_counts, port_protocol_counts, lines_batch, line_number,
                   i, ret, out_exists, out>>

LoadReturn ==
    /\ pc = "load_loop"
    /\ lk_line_number > Len(lookupFile)
    /\ pc' = "parse_open"
    /\ log' = Append(log, <<"info", "load_lookup_table", 0>>)
    /\ UNCHANGED <<lookupFile, flowFile, batch_size, lookup, lk_line_number,
                   tag_counts, port_protocol_counts, lines_batch, line_number,
                   i, ret, out_exists, out, error>>

\* --------------------------------------------------------- process_lines
\* defaultdict(int): d[k] += 1, a new key is inserted at the end
Incr(d, k) ==
    IF \E n \in 1..Len(d) : d[n][1] = k
    THEN [n \in 1..Len(d) |-> IF d[n][1] = k THEN <<k, d[n][2] + 1>> ELSE d[n]]
    ELSE Append(d, <<k, 1>>)

\* variant: the tag count is only incremented for a key the table maps
ProcessOne_TagOnlyWhenMapped(line, number, lk, tc, ppc, lg) ==
    LET parts == SplitWS(line)
    IN  IF Len(parts) < 10
        THEN [tag_counts |-> tc, port_protocol_counts |-> ppc,
              log |-> Append(lg, <<"warning", "process_lines", number>>)]
        ELSE IF ~IntOk(parts[7])
        THEN [tag_counts |-> tc, port_protocol_counts |-> ppc,
              log |-> Append(lg, <<"error", "process_lines", number>>)]
        ELSE LET key == <<IntVal(parts[7]), IF parts[8] = <<"6">> THEN Tcp ELSE Udp>>
             IN  [tag_counts |-> IF key \in DOMAIN lk THEN Incr(tc, lk[key]) ELSE tc,
                  port_protocol_counts |-> Incr(ppc, key),
                  log |-> lg]

\* variant: the protocol field is compared as a number, so "06" is tcp too
ProcessOne_ProtocolAsNumber(line, number, lk, tc, ppc, lg) ==
    LET parts == SplitWS(line)
    IN  IF Len(parts) < 10
        THEN [tag_counts |-> tc, port_protocol_counts |-> ppc,
              log |-> Append(lg, <<"warning", "process_lines", number>>)]
        ELSE IF ~IntOk(parts[7])
        THEN [tag_counts |-> tc, port_protocol_counts |-> ppc,
              log |-> Append(lg, <<"error", "process_lines", number>>)]
        ELSE LET protocol == IF IntOk(parts[8]) /\ IntVal(parts[8]) = 6
                             THEN Tcp ELSE Udp
                 key == <<IntVal(parts[7]), protocol>>
                 tag == IF key \in DOMAIN lk THEN lk[key] ELSE Untagged
             IN  [tag_counts |-> Incr(tc, tag),
                  port_protocol_counts |-> Incr(ppc, key),
                  log |-> lg]

\* the body of the for loop on one line, logged under line number `number`
ProcessOne(line, number, lk, tc, ppc, lg) ==
    LET parts == SplitWS(line)
    IN  IF Len(parts) < 10
        THEN [tag_counts |-> tc, port_protocol_counts |-> ppc,
              log |-> Append(lg, <<"warning", "process_lines", number>>)]
        ELSE IF ~IntOk(parts[7])
        THEN [tag_counts |-> tc, port_protocol_counts |-> ppc,
              log |-> Append(lg, <<"error", "process_lines", number>>)]
        ELSE LET dstport == IntVal(parts[7])
                 protocol == IF parts[8] = <<"6">> THEN Tcp ELSE Udp
                 key == <<dstport, protocol>>
                 tag == IF key \in DOMAIN lk THEN lk[key] ELSE Untagged
             IN  [tag_counts |-> Incr(tc, tag),
                  port_protocol_counts |-> Incr(ppc, key),
                  log |-> lg]

\* process_lines is called with parse_flow_log's line_number as line_number_start
LineNumberStart == line_number

\* variant: a skipped line ends the batch (break instead of continue)
ProcessLine_AbortBatch ==
    /\ pc = "process_lines"
    /\ i < Len(lines_batch)
    /\ LET r == ProcessOne(lines_batch[i + 1], line_number + i, lookup,
                           tag_counts, port_protocol_counts, log)
       IN  /\ tag_counts' = r.tag_counts
           /\ port_protocol_counts' = r.port_protocol_counts
           /\ log' = r.log
           /\ i' = IF r.log # log THEN Len(lines_batch) ELSE i + 1
    /\ UNCHANGED <<pc, lookupFile, flowFile, batch_size, lookup, lk_line_number,
                   lines_batch, line_number, ret, out_exists, out, error>>

ProcessLine ==
    /\ pc = "process_lines"
    /\ i < Len(lines_batch)
    /\ LET r == ProcessOne(lines_batch[i + 1], LineNumberStart + i, lookup,
                           tag_counts, port_protocol_counts, log)
       IN  /\ tag_counts' = r.tag_counts
           /\ port_protocol_counts' = r.port_protocol_counts
           /\ log' = r.log
    /\ i' = i + 1
    /\ UNCHANGED <<pc, lookupFile, flowFile, batch_size, lookup, lk_line_number,
                   lines_batch, line_number, ret, out_exists, out, error>>

\* the for loop of process_lines is exhausted: back in parse_flow_log
ProcessReturn ==
    /\ pc = "process_lines"
    /\ i = Len(lines_batch)
    /\ IF ret = "batch"
       THEN /\ lines_batch' = <<>>
            /\ pc' = "parse_loop"
            /\ UNCHANGED log
       ELSE /\ pc' = "write_open"
            /\ log' = Append(log, <<"info", "parse_flow_log", 0>>)
            /\ UNCHANGED lines_batch
    /\ ret' = "none"
    /\ UNCHANGED <<lookupFile, flowFile, batch_size, lookup, lk_line_number,
                   tag_counts, port_protocol_counts, line_number, i,
                   out_exists, out, error>>

\* -------------------------------------------------------- parse_flow_log
ParseOpen ==
    /\ pc = "parse_open"
    /\ pc' = "parse_loop"
    /\ tag_counts' = <<>>
    /\ port_protocol_counts' = <<>>
    /\ lines_batch' = <<>>
    /\ UNCHANGED <<lookupFile, flowFile, batch_size, lookup, lk_line_number,
                   line_number, i, ret, out_exists, out, log, error>>

ParseOpenFail ==
    /\ pc = "parse_open"
    /\ \E e \in {"FileNotFoundError", "IOError"} : Fail(e, "parse_flow_log")
    /\ UNCHANGED <<lookupFile, flowFile, batch_size, lookup, lk_line_number,
                   tag_counts, port_protocol_counts, lines_batch, line_number,
                   i, ret, out_exists, out>>

\* lines_batch after the append of one loop iteration
Appended == Append(lines_batch, Strip(flowFile[line_number + 1]))

\* one iteration of "for line_number, line in enumerate(f, start=1)"
ParseReadLine ==
    /\ pc = "parse_loop"
    /\ line_number < Len(flowFile)
    /\ line_number' = line_number + 1
    /\ lines_batch' = Appended
    /\ IF Len(Appended) = batch_size
       THEN /\ pc' = "process_lines"
            /\ i' = 0
            /\ ret' = "batch"
       ELSE UNCHANGED <<pc, i, ret>>
    /\ UNCHANGED <<lookupFile, flowFile, batch_size, lookup, lk_line_number,
                   tag_counts, port_protocol_counts, out_exists, out, log, error>>

\* variant: the lines left in lines_batch at end of file are not processed
ParseEndOfFile_DropRest ==
    /\ pc = "parse_loop"
    /\ line_number = Len(flowFile)
    /\ pc' = "write_open"
    /\ log' = Append(log, <<"info", "parse_flow_log", 0>>)
    /\ UNCHANGED <<lookupFile, flowFile, batch_size, lookup, lk_line_number,
                   tag_counts, port_protocol_counts, lines_batch, line_number,
                   i, ret, out_exists, out, error>>

\* end of file: "if lines_batch:" processes the remaining lines
ParseEndOfFile ==
    /\ pc = "parse_loop"
    /\ line_number = Len(flowFile)
    /\ IF lines_batch # <<>>
       THEN /\ pc' = "process_lines"
            /\ i' = 0
            /\ ret' = "rest"
            /\ UNCHANGED log
       ELSE /\ pc' = "write_open"
            /\ log' = Append(log, <<"info", "parse_flow_log", 0>>)
            /\ UNCHANGED <<i, ret>>
    /\ UNCHANGED <<lookupFile, flowFile, batch_size, lookup, lk_line_number,
                   tag_counts, port_protocol_counts, lines_batch, line_number,
                   out_exists, out, error>>

ParseReadFail ==
    /\ pc = "parse_loop"
    /\ Fail("IOError", "parse_flow_log")
    /\ UNCHANGED <<lookupFile, flowFile, batch_size, lookup, lk_line_number,
                   tag_counts, port_protocol_counts, lines_batch, line_number,
                   i, ret, out_exists, out>>

\* ----------------------------------------------------------- write_output
TagHeader == <<"T", "a", "g", " ", "C", "o", "u", "n", "t", "s", ":", "\n">>
TagColumns == <<"T", "a", "g", " ", " ", " ", " ", " ", " ", " ", " ", " ", " ", " ", " ", " ", "C", "o", "u", "n", "t", "\n">>
PortHeader == <<"\n", "P", "o", "r", "t", "/", "P", "r", "o", "t", "o", "c", "o", "l", " ", "C", "o", "m", "b", "i", "n", "a", "t", "i", "o", "n", " ", "C", "o", "u", "n", "t", "s", ":", "\n">>
PortColumns == <<"P", "o", "r", "t", " ", " ", " ", "P", "r", "o", "t", "o", "c", "o", "l", " ", " ", " ", "C", "o", "u", "n", "t", "\n">>

\* f"{tag:<15} {count:>5}\n"
TagLine(tag, count) ==
    LJust(tag, 15) \o <<" ">> \o RJust(IntStr(count), 5) \o <<"\n">>

\* f"{port:<7} {protocol:<10} {count}\n"
PortLine(port, protocol, count) ==
    LJust(IntStr(port), 7) \o <<" ">> \o LJust(protocol, 10) \o <<" ">>
        \o IntStr(count) \o <<"\n">>

\* the arguments of the successive f.write calls
Writes(tc, ppc) ==
    <<TagHeader, TagColumns>>
    \o [n \in 1..Len(tc) |-> TagLine(tc[n][1], tc[n][2])]
    \o <<PortHeader, PortColumns>>
    \o [n \in 1..Len(ppc) |-> PortLine(ppc[n][1][1], ppc[n][1][2], ppc[n][2])]

\* open(output_file, "w") creates or truncates the file
WriteOpen ==
    /\ pc = "write_open"
    /\ pc' = "write"
    /\ out_exists' = TRUE
    /\ out' = <<>>
    /\ UNCHANGED <<lookupFile, flowFile, batch_size, lookup, lk_line_number,
                   tag_counts, port_protocol_counts, lines_batch, line_number,
                   i, ret, log, error>>

WriteOpenFail ==
    /\ pc = "write_open"
    /\ Fail("IOError", "write_output")
    /\ UNCHANGED <<lookupFile, flowFile, batch_size, lookup, lk_line_number,
                   tag_counts, port_protocol_counts, lines_batch, line_number,
                   i, ret, out_exists, out>>

\* one f.write call
WriteNext ==
    /\ pc = "write"
    /\ Len(out) < Len(Writes(tag_counts, port_protocol_counts))
    /\ out' = Append(out, Writes(tag_counts, port_protocol_counts)[Len(out) + 1])
    /\ UNCHANGED <<pc, lookupFile, flowFile, batch_size, lookup, lk_line_number,
                   tag_counts, port_protocol_counts, lines_batch, line_number,
                   i, ret, out_exists, log, error>>

\* a write (or the close) raises IOError: what was written stays in the file
WriteFail ==
    /\ pc = "write"
    /\ Fail("IOError", "write_output")
    /\ UNCHANGED <<lookupFile, flowFile, batch_size, lookup, lk_line_number,
                   tag_counts, port_protocol_counts, lines_batch, line_number,
                   i, ret, out_exists, out>>

\* the with block ends, write_output and main return
WriteReturn ==
    /\ pc = "write"
    /\ Len(out) = Len(Writes(tag_counts, port_protocol_counts))
    /\ pc' = "done"
    /\ log' = log \o <<(<<"info", "write_output", 0>>), (<<"info", "main", 0>>)>>
    /\ UNCHANGED <<lookupFile, flowFile, batch_size, lookup, lk_line_number,
                   tag_counts, port_protocol_counts, lines_batch, line_number,
                   i, ret, out_exists, out, error>>

\* ------------------------------------------------------------------- main
Next ==
    \/ LoadOpen
    \/ LoadOpenFail
    \/ LoadSkipHeader
    \/ LoadLine
    \/ LoadReadFail
    \/ LoadReturn
    \/ ParseOpen
    \/ ParseOpenFail
    \/ ParseReadLine
    \/ ParseEndOfFile
    \/ ParseReadFail
    \/ ProcessLine
    \/ ProcessReturn
    \/ WriteOpen
    \/ WriteOpenFail
    \/ WriteNext
    \/ WriteFail
    \/ WriteReturn

Spec == Init /\ [][Next]_vars

\* ------------------------------------------- vocabulary of the properties
\* positions where a whitespace-separated field of s starts
FieldStarts(s) ==
    {n \in 1..Len(s) : s[n] \notin Whitespace /\ (n = 1 \/ s[n - 1] \in Whitespace)}

NumFields(s) == Cardinality(FieldStarts(s))

\* field number k (0-based) of s: the maximal run without whitespace
FieldAt(s, k) ==
    LET first == CHOOSE n \in FieldStarts(s) :
                     Cardinality({m \in FieldStarts(s) : m < n}) = k
        last == CHOOSE m \in first..Len(s) :
                     /\ \A x \in first..m : s[x] \notin Whitespace
                     /\ (m = Len(s) \/ s[m + 1] \in Whitespace)
    IN  SubSeq(s, first, last)

\* an optional sign followed by decimal digits
IsInteger(f) ==
    LET body == IF f # <<>> /\ f[1] \in {"+", "-"} THEN Tail(f) ELSE f
    IN  body # <<>> /\ \A n \in 1..Len(body) : IsDigit(body[n])

\* a flow-log line with at least 10 fields and an integer in field index 6
Classifiable(line) == NumFields(line) >= 10 /\ IsInteger(FieldAt(line, 6))

FlowKey(line) ==
    <<IntVal(FieldAt(line, 6)), IF FieldAt(line, 7) = <<"6">> THEN Tcp ELSE Udp>>

FlowTag(line) ==
    IF FlowKey(line) \in DOMAIN lookup THEN lookup[FlowKey(line)] ELSE Untagged

\* ordered-dict views
Keys(d) == {d[n][1] : n \in 1..Len(d)}

Get(d, k) ==
    IF k \in Keys(d) THEN d[CHOOSE n \in 1..Len(d) : d[n][1] = k][2] ELSE 0

NoDupKeys(d) == \A a, b \in 1..Len(d) : d[a][1] = d[b][1] => a = b

RECURSIVE Total(_)
Total(d) == IF d = <<>> THEN 0 ELSE Head(d)[2] + Total(Tail(d))

\* number of flow-log lines whose loop iteration in process_lines has run
Processed ==
    IF pc = "parse_loop" THEN line_number - Len(lines_batch)
    ELSE IF pc = "process_lines" THEN line_number - Len(lines_batch) + i
    ELSE Len(flowFile)

Aggregating == pc \in {"parse_loop", "process_lines", "write_open", "write", "done"}

Aggregated == pc \in {"write_open", "write", "done"}

\* the line the next iteration of process_lines works on
AtLine == pc = "process_lines" /\ i < Len(lines_batch)

\* C1: at every point of the aggregation the counts of TagCounts and of
\* PortProtocolCounts both sum to the number of lines processed so far that
\* have at least 10 fields and an integer in field index 6.
C1_SumsEqualClassified ==
    Aggregating =>
        /\ Total(tag_counts) = Total(port_protocol_counts)
        /\ Total(tag_counts) =
               Cardinality({n \in 1..Processed : Classifiable(flowFile[n])})

C1_Witness ==
    /\ pc = "process_lines"
    /\ i >= 1
    /\ Total(tag_counts) >= 2
    /\ Processed > Total(tag_counts)

\* C2: processing a line with at least 10 fields and an integer port p adds
\* exactly 1 to PortProtocolCounts[(p, proto)] and to TagCounts[t] and changes
\* no other entry; proto is tcp iff field 7 is exactly "6", t is the lookup
\* table's tag for (p, proto), "untagged" when the key is absent.
C2_ClassifiedLineIncrements ==
    [][(AtLine /\ Classifiable(lines_batch[i + 1])) =>
          LET key == FlowKey(lines_batch[i + 1])
              tag == FlowTag(lines_batch[i + 1])
          IN  /\ NoDupKeys(port_protocol_counts') /\ NoDupKeys(tag_counts')
              /\ \A k \in Keys(port_protocol_counts) \cup Keys(port_protocol_counts') \cup {key} :
                     Get(port_protocol_counts', k) =
                         Get(port_protocol_counts, k) + (IF k = key THEN 1 ELSE 0)
              /\ \A t \in Keys(tag_counts) \cup Keys(tag_counts') \cup {tag} :
                     Get(tag_counts', t) =
                         Get(tag_counts, t) + (IF t = tag THEN 1 ELSE 0)]_vars

C2_Witness ==
    /\ pc = "process_lines"
    /\ i >= 1
    /\ Classifiable(lines_batch[i])
    /\ FieldAt(lines_batch[i], 7) # <<"6">>
    /\ Get(tag_counts, Untagged) >= 1
    /\ \E t \in Keys(tag_counts) : t # Untagged /\ Get(tag_counts, t) >= 2

\* the final counts are those of the classifiable lines of the whole file
CountsOfFile(tc, ppc) ==
    /\ \A k \in Keys(ppc) \cup {FlowKey(flowFile[n]) :
                                  n \in {m \in 1..Len(flowFile) : Classifiable(flowFile[m])}} :
           Get(ppc, k) = Cardinality({n \in 1..Len(flowFile) :
                             Classifiable(flowFile[n]) /\ FlowKey(flowFile[n]) = k})
    /\ \A t \in Keys(tc) \cup {FlowTag(flowFile[n]) :
                                 n \in {m \in 1..Len(flowFile) : Classifiable(flowFile[m])}} :
           Get(tc, t) = Cardinality({n \in 1..Len(flowFile) :
                            Classifiable(flowFile[n]) /\ FlowTag(flowFile[n]) = t})

\* C3: a line with fewer than 10 fields or a non-integer field 6 leaves both
\* mappings unchanged and the loop goes on to the next line; every valid line
\* of the file, also after a skipped one, is counted in the final result.
C3_SkippedLineLeavesCounts ==
    [][/\ (AtLine /\ ~Classifiable(lines_batch[i + 1])) =>
              /\ tag_counts' = tag_counts
              /\ port_protocol_counts' = port_protocol_counts
              /\ pc' = "process_lines"
              /\ i' = i + 1
       /\ (pc' = "write_open") => CountsOfFile(tag_counts', port_protocol_counts')]_vars

C3_Witness ==
    /\ pc = "write_open"
    /\ \E a, b, c \in 1..Len(flowFile) :
           /\ a < b /\ b < c
           /\ ~Classifiable(flowFile[a]) /\ NumFields(flowFile[a]) >= 10
           /\ Classifiable(flowFile[b])
           /\ NumFields(flowFile[c]) < 10
    /\ Total(tag_counts) >= 1

\* parse_flow_log with batch_size = 1: process_lines on one line at a time
RECURSIVE OneAtATime(_, _, _, _)
OneAtATime(f, n, tc, ppc) ==
    IF n > Len(f) THEN <<tc, ppc>>
    ELSE LET r == ProcessOne(Strip(f[n]), n, lookup, tc, ppc, <<>>)
         IN  OneAtATime(f, n + 1, r.tag_counts, r.port_protocol_counts)

\* C4: for every batch size the mappings parse_flow_log returns (keys, counts
\* and key order) are those of processing the lines one at a time.
C4_BatchSizeUnobservable ==
    pc = "write_open" =>
        <<tag_counts, port_protocol_counts>> = OneAtATime(flowFile, 1, <<>>, <<>>)

C4_Witness ==
    /\ pc = "write_open"
    /\ batch_size = 2
    /\ Len(flowFile) = 3
    /\ Len(port_protocol_counts) >= 2
    /\ Classifiable(flowFile[3])

\* lookup lines: the comma-separated fields of the stripped line
Commas(s) == {n \in 1..Len(s) : s[n] = ","}

ThreeFields(line) == Cardinality(Commas(Strip(line))) = 2

LkField(line, k) ==
    LET s == Strip(line)
        c1 == CHOOSE n \in Commas(s) : \A m \in Commas(s) : n <= m
        c2 == CHOOSE n \in Commas(s) : \A m \in Commas(s) : n >= m
    IN  IF k = 1 THEN SubSeq(s, 1, c1 - 1)
        ELSE IF k = 2 THEN SubSeq(s, c1 + 1, c2 - 1)
        ELSE SubSeq(s, c2 + 1, Len(s))

\* a data line the loader can use: three fields, integer port
LkValid(line) == ThreeFields(line) /\ IsInteger(Strip(LkField(line, 1)))

LkKey(line) == <<IntVal(LkField(line, 1)), Lower(LkField(line, 2))>>

LkTag(line) == Lower(Strip(LkField(line, 3)))

ValidLookupLines == {n \in 2..Len(lookupFile) : LkValid(lookupFile[n])}

LkAcceptable(line) ==
    /\ ThreeFields(line)
    /\ IsInteger(Strip(LkField(line, 1)))
    /\ Head(Strip(LkField(line, 1))) # "-"

\* C6: a data line that does not split into exactly three fields, or whose
\* port is not a non-negative integer (non-numeric, or negative like "-5"),
\* is skipped: the table is unchanged and the load goes on to the next line.
C6_MalformedLookupLineSkipped ==
    [][(/\ pc = "load_loop"
        /\ lk_line_number <= Len(lookupFile)
        /\ ~LkAcceptable(lookupFile[lk_line_number])
        /\ pc' = "load_loop")
       => (lookup' = lookup /\ lk_line_number' = lk_line_number + 1)]_vars

\* C7: whatever the content of the resources, load_lookup_table and
\* parse_flow_log return; the only errors that abort the run come from
\* failing to open or read a resource.
C7_OnlyResourceFailuresAbort ==
    pc = "failed" => error \in {"FileNotFoundError", "IOError"}

\* C8: when a stage fails fatally the run aborts with the error propagated
\* and no output artifact exists afterwards, not even a partial report.
C8_FatalLeavesNoOutput ==
    pc = "failed" => (error # "none" /\ ~out_exists /\ out = <<>>)

\* the smaller of two first-seen positions decides the order of two keys
FirstSeenKey(k) ==
    CHOOSE n \in 1..Len(flowFile) :
        /\ Classifiable(flowFile[n]) /\ FlowKey(flowFile[n]) = k
        /\ \A m \in 1..(n - 1) : ~(Classifiable(flowFile[m]) /\ FlowKey(flowFile[m]) = k)

FirstSeenTag(t) ==
    CHOOSE n \in 1..Len(flowFile) :
        /\ Classifiable(flowFile[n]) /\ FlowTag(flowFile[n]) = t
        /\ \A m \in 1..(n - 1) : ~(Classifiable(flowFile[m]) /\ FlowTag(flowFile[m]) = t)

Max(a, b) == IF a >= b THEN a ELSE b

\* c is text, blanks up to column w (at least), then the rest
PaddedRight(c, from, text, w) ==
    /\ SubSeq(c, from, from + Len(text) - 1) = text
    /\ \A x \in (from + Len(text))..(from + Max(w, Len(text)) - 1) : c[x] = " "

\* "tag left-justified in 15, one space, count right-justified in 5"
IsTagLine(c, tag, count) ==
    LET w == Max(15, Len(tag))
        digits == IntStr(count)
        cw == Max(5, Len(digits))
    IN  /\ Len(c) = w + 1 + cw + 1
        /\ PaddedRight(c, 1, tag, 15)
        /\ c[w + 1] = " "
        /\ \A x \in (w + 2)..(w + 1 + cw - Len(digits)) : c[x] = " "
        /\ SubSeq(c, w + 2 + cw - Len(digits), w + 1 + cw) = digits
        /\ c[Len(c)] = "\n"

\* "port left-justified 7, protocol left-justified 10, count unpadded"
IsPortLine(c, port, protocol, count) ==
    LET pw == Max(7, Len(IntStr(port)))
        qw == Max(10, Len(protocol))
        digits == IntStr(count)
    IN  /\ Len(c) = pw + 1 + qw + 1 + Len(digits) + 1
        /\ PaddedRight(c, 1, IntStr(port), 7)
        /\ c[pw + 1] = " "
        /\ PaddedRight(c, pw + 2, protocol, 10)
        /\ c[pw + 1 + qw + 1] = " "
        /\ SubSeq(c, pw + qw + 3, pw + qw + 2 + Len(digits)) = digits
        /\ c[Len(c)] = "\n"

\* C9: the report is the Tag Counts header and column header, one line per
\* TagCounts entry in the mapping's order, the blank line with the
\* Port/Protocol header and its column header, one line per
\* PortProtocolCounts entry in the mapping's order, each in its fixed-width
\* layout; the order of both mappings is first-seen order in the flow log.
C9_ReportLayout ==
    pc = "done" =>
        LET nt == Len(tag_counts)
            np == Len(port_protocol_counts)
        IN  /\ Len(out) = 4 + nt + np
            /\ out[1] = TagHeader
            /\ out[2] = TagColumns
            /\ \A n \in 1..nt : IsTagLine(out[2 + n], tag_counts[n][1], tag_counts[n][2])
            /\ out[3 + nt] = PortHeader
            /\ out[4 + nt] = PortColumns
            /\ \A n \in 1..np :
                   IsPortLine(out[4 + nt + n], port_protocol_counts[n][1][1],
                              port_protocol_counts[n][1][2], port_protocol_counts[n][2])
            /\ \A a, b \in 1..nt :
                   a < b => FirstSeenTag(tag_counts[a][1]) < FirstSeenTag(tag_counts[b][1])
            /\ \A a, b \in 1..np :
                   a < b => FirstSeenKey(port_protocol_counts[a][1])
                                < FirstSeenKey(port_protocol_counts[b][1])

C9_Witness ==
    /\ pc = "done"
    /\ Len(tag_counts) >= 2
    /\ Len(port_protocol_counts) >= 3
    /\ \E n \in 1..Len(tag_counts) : Len(tag_counts[n][1]) > 15
    /\ \E n \in 1..Len(tag_counts) : tag_counts[n][2] >= 2
    /\ \E n \in 1..Len(port_protocol_counts) : port_protocol_counts[n][1][1] < 0

\* diagnostics of skipped flow-log lines, in the order emitted
SkipDiagnostics == SelectSeq(log, LAMBDA d : d[2] = "process_lines")

SkippedLines == {n \in 1..Len(flowFile) : ~Classifiable(flowFile[n])}

\* C10: the diagnostic of every skipped line cites the line's own 1-based
\* position in the file, whatever the batch size and the line's place in
\* its batch.
C10_DiagnosticCitesOwnLine ==
    Aggregated =>
        /\ Len(SkipDiagnostics) = Cardinality(SkippedLines)
        /\ \A j \in 1..Len(SkipDiagnostics) :
               /\ SkipDiagnostics[j][3] \in SkippedLines
               /\ Cardinality({n \in SkippedLines : n < SkipDiagnostics[j][3]}) = j - 1

====
